---- MODULE Spec2Model ----
(***************************************************************************)
(* Construction Risk & Cost Estimator (src/app.py).                        *)
(*                                                                         *)
(* Two parts of the script are modelled:                                   *)
(*   - monte_carlo_simulation and its caller (lines 75-96, 144-163), run   *)
(*     by one session (Spec) or by two sessions of the same process that   *)
(*     share the process-wide generator np.random (SpecPar);               *)
(*   - the five fetch functions and the start of the script up to the      *)
(*     parameter form (lines 12-65, 98-142) (SpecFetch).                   *)
(*                                                                         *)
(* Numbers.  Costs are integers.  A risk factor 1 + rate/100 is kept in    *)
(* hundredths (100 + rate), so the product of the three factors is in      *)
(* millionths and the `Total Costs` column is kept in millionths of a      *)
(* currency unit.  A uniform variate U in [0,1) is kept in eighths.        *)
(***************************************************************************)
EXTENDS Integers, Sequences, FiniteSets, TLC

VARIABLES
    rng,             \* state of the process-wide generator behind np.random
    seed,            \* the state np.random had when the process started
    pc,              \* pc[r]: where session r is in lines 144-163 / 75-96
    args,            \* args[r]: the arguments of the call of line 145
    material_costs,  \* locals of monte_carlo_simulation, <<>> while unassigned
    labor_costs,
    other_expenses,
    total_costs,
    drawn,           \* drawn[r][c]: what np.random.triangular returned for c,
                     \* and the generator state it was called in
    results,         \* the caller's (results_df, total_costs), <<>> while unbound
    raised,          \* the exception that left the call, "" if none
    shown,           \* what lines 147-163 displayed, <<>> if nothing
    fpc,             \* position of the script in lines 99-142
    response,        \* response[f]: what the endpoint of fetcher f answered
    fetched,         \* fetched[f]: the value fetcher f returned
    warnings,        \* the fetchers that called st.warning
    form             \* the defaults of the number inputs of lines 132-133

simvars == <<rng, seed, pc, args, material_costs, labor_costs, other_expenses,
             total_costs, drawn, results, raised, shown>>
fetchvars == <<fpc, response, fetched, warnings, form>>
vars == <<rng, seed, pc, args, material_costs, labor_costs, other_expenses,
          total_costs, drawn, results, raised, shown,
          fpc, response, fetched, warnings, form>>

(***************************************************************************)
(* Bounds and input sets                                                   *)
(***************************************************************************)
MaxSims == 2

Sessions == {1, 2}
Components == {"material", "labor", "other"}

MeanSet == {-4, 0, 4}
StdSet == {-2, 0, 2}
SimsSet == -1 .. MaxSims
InflationSet == {0, 5}
DelaySet == {10}
InterestSet == {5}
EquipmentSet == {0, 3}
OverheadSet == {1}

Args ==
    [material_mean : MeanSet, material_std : StdSet,
     labor_mean : MeanSet, labor_std : StdSet,
     other_mean : MeanSet, other_std : StdSet,
     inflation_rate : InflationSet, delay_risk : DelaySet,
     interest_rate : InterestSet,
     equipment_cost : EquipmentSet, overhead_cost : OverheadSet,
     num_simulations : SimsSet]

\* the arguments two concurrent sessions pass: accepted ones only
ParArgs ==
    {a \in Args : /\ a.material_mean = 4 /\ a.labor_mean = 4 /\ a.other_mean = 0
                  /\ a.material_std = 2 /\ a.labor_std = 2 /\ a.other_std = 2
                  /\ a.equipment_cost = 3 /\ a.inflation_rate = 5
                  /\ a.num_simulations >= 1}

NoArgs ==
    [material_mean |-> 0, material_std |-> 0, labor_mean |-> 0, labor_std |-> 0,
     other_mean |-> 0, other_std |-> 0, inflation_rate |-> 0, delay_risk |-> 0,
     interest_rate |-> 0, equipment_cost |-> 0, overhead_cost |-> 0,
     num_simulations |-> 0]

None == <<>>
Some(x) == <<x>>
NoDraws == [c \in Components |-> None]

(***************************************************************************)
(* np.random: a deterministic generator whose state is process-wide        *)
(***************************************************************************)
RngStates == 0 .. 7

NextState(s) == (5 * s + 3) % 8

\* the uniform variate the generator yields in state s, in eighths
Uniform8(s) == <<0, 1, 4, 7>>[(s % 4) + 1]

ISqrt(n) == CHOOSE q \in 0 .. n : q * q <= n /\ n < (q + 1) * (q + 1)

\* one draw of the triangular distribution from the variate u/8
TriValue(left, mode, right, u) ==
    LET base == right - left
        leftbase == mode - left
        leftprod == leftbase * base
        rightprod == (right - mode) * base
    IN  IF u * base <= 8 * leftbase
        THEN left + ISqrt((u * leftprod) \div 8)
        ELSE right - ISqrt(((8 - u) * rightprod) \div 8)

RECURSIVE Draws(_, _, _, _, _)
Draws(left, mode, right, size, s) ==
    IF size = 0 THEN <<>>
    ELSE <<TriValue(left, mode, right, Uniform8(s))>>
         \o Draws(left, mode, right, size - 1, NextState(s))

RECURSIVE Advance(_, _)
Advance(s, k) == IF k = 0 THEN s ELSE Advance(NextState(s), k - 1)

\* the checks np.random.triangular makes before it draws
TriangularRejects(left, mode, right, size) ==
    \/ left > mode
    \/ mode > right
    \/ left = right
    \/ size < 0

\* np.random.triangular(left, mode, right, size) called in generator state s
Triangular(left, mode, right, size, s) ==
    IF TriangularRejects(left, mode, right, size)
    THEN [ok |-> FALSE, out |-> <<>>, rng |-> s]
    ELSE [ok |-> TRUE,
          out |-> Draws(left, mode, right, size, s),
          rng |-> Advance(s, size)]

(***************************************************************************)
(* monte_carlo_simulation, lines 75-96                                     *)
(***************************************************************************)
\* a slip in line 80: the overhead term left out of the sum
AddCostsNoOverhead(m, l, o, equipment_cost, overhead_cost) ==
    [i \in 1 .. Len(m) |-> m[i] + l[i] + o[i] + equipment_cost]

\* line 80: the three sampled arrays plus the two scalars, element by element
AddCosts(m, l, o, equipment_cost, overhead_cost) ==
    [i \in 1 .. Len(m) |-> m[i] + l[i] + o[i] + equipment_cost + overhead_cost]

\* a slip in line 82: the inflation rate left out of its factor
inflation_factor_ignored(inflation_rate) == 100

\* lines 82-84, each factor in hundredths
inflation_factor(inflation_rate) == 100 + inflation_rate
delay_factor(delay_risk) == 100 + delay_risk
interest_factor(interest_rate) == 100 + interest_rate

\* the multiplier of line 85, in millionths
RiskFactor(inflation_rate, delay_risk, interest_rate) ==
    inflation_factor(inflation_rate) * delay_factor(delay_risk)
        * interest_factor(interest_rate)

\* line 85: total_costs *= factor
Scale(t, factor) == [i \in 1 .. Len(t) |-> t[i] * factor]

\* lines 80-85
Aggregate(m, l, o, a) ==
    Scale(AddCosts(m, l, o, a.equipment_cost, a.overhead_cost),
          RiskFactor(a.inflation_rate, a.delay_risk, a.interest_rate))

\* a slip in lines 91-92: the scalar kept as a column of one row
BroadcastOne(x, n) == <<x>>

\* a scalar entry of the dict of line 87 fills the index the arrays give
Broadcast(x, n) == [i \in 1 .. n |-> x]

\* a slip in line 80: total_costs bound to material_costs itself and updated
\* in place, so the Material Costs column is the adjusted total
DataFrameAliased(m, l, o, equipment_cost, overhead_cost, t) ==
    [Material_Costs |-> t,
     Labor_Costs |-> l,
     Other_Expenses |-> o,
     Equipment_Costs |-> Broadcast(equipment_cost, Len(m)),
     Overhead_Costs |-> Broadcast(overhead_cost, Len(m)),
     Total_Costs |-> t]

\* lines 87-94
DataFrame(m, l, o, equipment_cost, overhead_cost, t) ==
    [Material_Costs |-> m,
     Labor_Costs |-> l,
     Other_Expenses |-> o,
     Equipment_Costs |-> Broadcast(equipment_cost, Len(m)),
     Overhead_Costs |-> Broadcast(overhead_cost, Len(m)),
     Total_Costs |-> t]

\* line 96
Returned(m, l, o, a, t) ==
    [results_df |-> DataFrame(m, l, o, a.equipment_cost, a.overhead_cost, t),
     total_costs |-> t]

\* a slip: the exception swallowed and the columns drawn so far handed back
PartialOnRaise(m, l, o) ==
    Some([results_df |-> [Material_Costs |-> m, Labor_Costs |-> l],
          total_costs |-> <<>>])

\* line 145 when the call raises: the assignment never happens
Unbound(m, l, o) == None

Columns ==
    {"Material_Costs", "Labor_Costs", "Other_Expenses", "Equipment_Costs",
     "Overhead_Costs", "Total_Costs"}

RECURSIVE SumSeq(_)
SumSeq(x) == IF x = <<>> THEN 0 ELSE Head(x) + SumSeq(Tail(x))

\* the mean of a column as the fraction num/den; den = 0 is NaN
Mean(x) == [num |-> SumSeq(x), den |-> Len(x)]

\* a < b for two means; a comparison with NaN is false
MeanLess(a, b) == a.den > 0 /\ b.den > 0 /\ a.num * b.den < b.num * a.den

\* lines 149 and 156: the histogram's data and the bars
Shown(res) ==
    [hist |-> res.total_costs,
     bars |-> [c \in Columns |-> Mean(res.results_df[c])]]

Left(a, c) ==
    CASE c = "material" -> a.material_mean - a.material_std
      [] c = "labor" -> a.labor_mean - a.labor_std
      [] c = "other" -> a.other_mean - a.other_std
Mode(a, c) ==
    CASE c = "material" -> a.material_mean
      [] c = "labor" -> a.labor_mean
      [] c = "other" -> a.other_mean
Right(a, c) ==
    CASE c = "material" -> a.material_mean + a.material_std
      [] c = "labor" -> a.labor_mean + a.labor_std
      [] c = "other" -> a.other_mean + a.other_std

\* the call of np.random.triangular for component c (lines 76-78)
Sample(a, c, s) ==
    Triangular(Left(a, c), Mode(a, c), Right(a, c), a.num_simulations, s)

(***************************************************************************)
(* Actions of a session                                                    *)
(***************************************************************************)
SimInit ==
    /\ seed \in RngStates
    /\ rng = seed
    /\ pc = [r \in Sessions |-> "idle"]
    /\ args = [r \in Sessions |-> NoArgs]
    /\ material_costs = [r \in Sessions |-> None]
    /\ labor_costs = [r \in Sessions |-> None]
    /\ other_expenses = [r \in Sessions |-> None]
    /\ total_costs = [r \in Sessions |-> None]
    /\ drawn = [r \in Sessions |-> NoDraws]
    /\ results = [r \in Sessions |-> None]
    /\ raised = [r \in Sessions |-> ""]
    /\ shown = [r \in Sessions |-> None]

FetchIdle ==
    /\ fpc = "off"
    /\ response = <<>>
    /\ fetched = <<>>
    /\ warnings = {}
    /\ form = None

\* line 145: the call, with arguments of the set A
Call(r, A) ==
    /\ pc[r] = "idle"
    /\ pc' = [pc EXCEPT ![r] = "line76"]
    /\ \E a \in A : args' = [args EXCEPT ![r] = a]
    /\ UNCHANGED <<rng, seed, material_costs, labor_costs, other_expenses,
                   total_costs, drawn, results, raised, shown>>
    /\ UNCHANGED fetchvars

\* the exception of np.random.triangular leaves the function and the script
Raise(r) ==
    /\ pc' = [pc EXCEPT ![r] = "raised"]
    /\ raised' = [raised EXCEPT ![r] = "ValueError"]
    /\ results' = [results EXCEPT ![r] =
                      Unbound(material_costs[r], labor_costs[r], other_expenses[r])]
    /\ UNCHANGED <<rng, seed, args, material_costs, labor_costs, other_expenses,
                   total_costs, drawn, shown>>

\* line 76
SampleMaterial(r) ==
    /\ pc[r] = "line76"
    /\ LET t == Sample(args[r], "material", rng)
       IN  IF t.ok
           THEN /\ material_costs' = [material_costs EXCEPT ![r] = Some(t.out)]
                /\ drawn' = [drawn EXCEPT ![r]["material"] = Some([at |-> rng, out |-> t.out])]
                /\ rng' = t.rng
                /\ pc' = [pc EXCEPT ![r] = "line77"]
                /\ UNCHANGED <<seed, args, labor_costs, other_expenses,
                               total_costs, results, raised, shown>>
           ELSE Raise(r)
    /\ UNCHANGED fetchvars

\* line 77
SampleLabor(r) ==
    /\ pc[r] = "line77"
    /\ LET t == Sample(args[r], "labor", rng)
       IN  IF t.ok
           THEN /\ labor_costs' = [labor_costs EXCEPT ![r] = Some(t.out)]
                /\ drawn' = [drawn EXCEPT ![r]["labor"] = Some([at |-> rng, out |-> t.out])]
                /\ rng' = t.rng
                /\ pc' = [pc EXCEPT ![r] = "line78"]
                /\ UNCHANGED <<seed, args, material_costs, other_expenses,
                               total_costs, results, raised, shown>>
           ELSE Raise(r)
    /\ UNCHANGED fetchvars

\* line 78
SampleOther(r) ==
    /\ pc[r] = "line78"
    /\ LET t == Sample(args[r], "other", rng)
       IN  IF t.ok
           THEN /\ other_expenses' = [other_expenses EXCEPT ![r] = Some(t.out)]
                /\ drawn' = [drawn EXCEPT ![r]["other"] = Some([at |-> rng, out |-> t.out])]
                /\ rng' = t.rng
                /\ pc' = [pc EXCEPT ![r] = "line80"]
                /\ UNCHANGED <<seed, args, material_costs, labor_costs,
                               total_costs, results, raised, shown>>
           ELSE Raise(r)
    /\ UNCHANGED fetchvars

\* lines 80-85
Combine(r) ==
    /\ pc[r] = "line80"
    /\ total_costs' = [total_costs EXCEPT ![r] =
           Some(Aggregate(material_costs[r][1], labor_costs[r][1],
                          other_expenses[r][1], args[r]))]
    /\ pc' = [pc EXCEPT ![r] = "line87"]
    /\ UNCHANGED <<rng, seed, args, material_costs, labor_costs, other_expenses,
                   drawn, results, raised, shown>>
    /\ UNCHANGED fetchvars

\* lines 87-96, and the assignment of line 145
Return(r) ==
    /\ pc[r] = "line87"
    /\ results' = [results EXCEPT ![r] =
           Some(Returned(material_costs[r][1], labor_costs[r][1],
                         other_expenses[r][1], args[r], total_costs[r][1]))]
    /\ pc' = [pc EXCEPT ![r] = "returned"]
    /\ UNCHANGED <<rng, seed, args, material_costs, labor_costs, other_expenses,
                   total_costs, drawn, raised, shown>>
    /\ UNCHANGED fetchvars

\* lines 147-163
Display(r) ==
    /\ pc[r] = "returned"
    /\ shown' = [shown EXCEPT ![r] = Some(Shown(results[r][1]))]
    /\ pc' = [pc EXCEPT ![r] = "shown"]
    /\ UNCHANGED <<rng, seed, args, material_costs, labor_costs, other_expenses,
                   total_costs, drawn, results, raised>>
    /\ UNCHANGED fetchvars

\* the session's script is run again from the top: its names are gone, the
\* generator of the process is not
Rerun(r) ==
    /\ pc[r] \in {"shown", "raised"}
    /\ pc' = [pc EXCEPT ![r] = "idle"]
    /\ args' = [args EXCEPT ![r] = NoArgs]
    /\ material_costs' = [material_costs EXCEPT ![r] = None]
    /\ labor_costs' = [labor_costs EXCEPT ![r] = None]
    /\ other_expenses' = [other_expenses EXCEPT ![r] = None]
    /\ total_costs' = [total_costs EXCEPT ![r] = None]
    /\ drawn' = [drawn EXCEPT ![r] = NoDraws]
    /\ results' = [results EXCEPT ![r] = None]
    /\ raised' = [raised EXCEPT ![r] = ""]
    /\ shown' = [shown EXCEPT ![r] = None]
    /\ UNCHANGED <<rng, seed>>
    /\ UNCHANGED fetchvars

Init == SimInit /\ FetchIdle

\* one session
Next ==
    \/ Call(1, Args)
    \/ SampleMaterial(1)
    \/ SampleLabor(1)
    \/ SampleOther(1)
    \/ Combine(1)
    \/ Return(1)
    \/ Display(1)
    \/ Rerun(1)

Spec == Init /\ [][Next]_vars

\* two sessions of one process, each running the simulation once
NextPar ==
    \E r \in Sessions :
        \/ Call(r, ParArgs)
        \/ SampleMaterial(r)
        \/ SampleLabor(r)
        \/ SampleOther(r)
        \/ Combine(r)
        \/ Return(r)
        \/ Display(r)

SpecPar == Init /\ [][NextPar]_vars

(***************************************************************************)
(* The fetch functions and the start of the script, lines 12-65, 98-142    *)
(***************************************************************************)
Fetchers == {"material", "labor", "regulatory", "weather", "legal"}

\* a JSON value: a number, a string, null, or no such key
Num(x) == [t |-> "num", n |-> x, s |-> ""]
Str(x) == [t |-> "str", n |-> 0, s |-> x]
Null == [t |-> "null", n |-> 0, s |-> ""]
Missing == [t |-> "missing", n |-> 0, s |-> ""]

MaterialKeys == {"cement", "steel", "sand", "bricks"}

Keys(f) ==
    CASE f = "material" -> MaterialKeys
      [] f = "labor" -> {"average_labor_cost"}
      [] f = "regulatory" -> {"regulatory_updates"}
      [] f = "weather" -> {"forecast"}
      [] f = "legal" -> {"legal_risks"}

\* the second argument of each data.get
Default(k) ==
    CASE k = "cement" -> Num(500)
      [] k = "steel" -> Num(60000)
      [] k = "sand" -> Num(1200)
      [] k = "bricks" -> Num(8)
      [] k = "average_labor_cost" -> Num(500)
      [] k = "regulatory_updates" -> Str("No recent updates.")
      [] k = "forecast" -> Str("No recent weather updates.")
      [] k = "legal_risks" -> Str("No legal risks detected.")

\* what an endpoint can hold under a key
Served(k) ==
    IF k \in MaterialKeys \cup {"average_labor_cost"}
    THEN {Missing, Null, Num(450)}
    ELSE {Missing, Null, Str("update")}

\* requests.get raises; response.json() raises; the JSON value is no object
\* (data.get raises AttributeError); the JSON value is an object
Kinds == {"request_error", "not_json", "not_object", "object"}

NoData(f) == [k \in Keys(f) |-> Missing]

Responses(f) ==
    {[kind |-> kd, data |-> NoData(f)] :
        kd \in {"request_error", "not_json", "not_object"}}
    \cup {[kind |-> "object", data |-> d] : d \in [Keys(f) -> UNION {Served(k) : k \in Keys(f)}]}

NoResponse(f) == [kind |-> "none", data |-> NoData(f)]

\* dict.get(key, default)
Get(data, key, default) ==
    IF data[key] = Missing THEN default ELSE data[key]

\* the try block of a fetch function raises an exception
TryRaises(resp) == resp.kind # "object"

\* a slip: `except requests.RequestException`, which lets the errors of
\* response.json() and data.get through
CaughtRequestOnly(resp) == resp.kind = "request_error"

\* the exception is caught by `except Exception`
Caught(resp) == TRUE

\* lines 12-25
fetch_material_prices(resp) ==
    IF TryRaises(resp)
    THEN [value |-> [k \in MaterialKeys |-> Default(k)],
          warned |-> TRUE, raised |-> ~Caught(resp)]
    ELSE [value |-> [k \in MaterialKeys |-> Get(resp.data, k, Default(k))],
          warned |-> FALSE, raised |-> FALSE]

\* lines 27-65: the four fetch functions of one key, each with its own key
FetchOne(resp, key) ==
    IF TryRaises(resp)
    THEN [value |-> Default(key), warned |-> TRUE, raised |-> ~Caught(resp)]
    ELSE [value |-> Get(resp.data, key, Default(key)),
          warned |-> FALSE, raised |-> FALSE]

fetch_labor_rates(resp) == FetchOne(resp, "average_labor_cost")
fetch_weather_forecast(resp) == FetchOne(resp, "forecast")
fetch_regulatory_data(resp) == FetchOne(resp, "regulatory_updates")
fetch_legal_risks(resp) == FetchOne(resp, "legal_risks")

FetchFn(f, resp) ==
    CASE f = "material" -> fetch_material_prices(resp)
      [] f = "labor" -> fetch_labor_rates(resp)
      [] f = "regulatory" -> fetch_regulatory_data(resp)
      [] f = "weather" -> fetch_weather_forecast(resp)
      [] f = "legal" -> fetch_legal_risks(resp)

\* lines 99-103, in the order the script calls them
FetchLine(f) ==
    CASE f = "material" -> "line99"
      [] f = "labor" -> "line100"
      [] f = "regulatory" -> "line101"
      [] f = "weather" -> "line102"
      [] f = "legal" -> "line103"
AfterFetch(f) ==
    CASE f = "material" -> "line100"
      [] f = "labor" -> "line101"
      [] f = "regulatory" -> "line102"
      [] f = "weather" -> "line103"
      [] f = "legal" -> "line105"

Unset == [t |-> "unset", n |-> 0, s |-> ""]

\* lines 132-139: the value= of the number inputs; None * 100 is a TypeError
FormRaises(prices, labor) ==
    prices["cement"].t # "num" \/ labor.t # "num"

FormValues(prices, labor) ==
    [material_cost |-> prices["cement"].n * 100,
     labor_cost |-> labor.n * 1000,
     other_cost |-> 50000,
     equipment_cost |-> 20000,
     overhead_cost |-> 50000]

FetchInit ==
    /\ seed = 0
    /\ rng = seed
    /\ pc = [r \in Sessions |-> "idle"]
    /\ args = [r \in Sessions |-> NoArgs]
    /\ material_costs = [r \in Sessions |-> None]
    /\ labor_costs = [r \in Sessions |-> None]
    /\ other_expenses = [r \in Sessions |-> None]
    /\ total_costs = [r \in Sessions |-> None]
    /\ drawn = [r \in Sessions |-> NoDraws]
    /\ results = [r \in Sessions |-> None]
    /\ raised = [r \in Sessions |-> ""]
    /\ shown = [r \in Sessions |-> None]
    /\ fpc = "line99"
    /\ response = [f \in Fetchers |-> NoResponse(f)]
    /\ fetched = [f \in Fetchers |-> Unset]
    /\ warnings = {}
    /\ form = None

\* one of lines 99-103: the call of fetcher f, the endpoint answering resp
Fetch(f) ==
    /\ fpc = FetchLine(f)
    /\ \E resp \in Responses(f) :
          LET got == FetchFn(f, resp)
          IN  /\ response' = [response EXCEPT ![f] = resp]
              /\ warnings' = IF got.warned THEN warnings \cup {f} ELSE warnings
              /\ IF got.raised
                 THEN /\ fpc' = "crashed"
                      /\ UNCHANGED fetched
                 ELSE /\ fpc' = AfterFetch(f)
                      /\ fetched' = [fetched EXCEPT ![f] = got.value]
    /\ UNCHANGED form
    /\ UNCHANGED simvars

\* lines 105-142: the page and the parameter form
Form ==
    /\ fpc = "line105"
    /\ IF FormRaises(fetched["material"], fetched["labor"])
       THEN /\ fpc' = "crashed"
            /\ UNCHANGED form
       ELSE /\ fpc' = "form"
            /\ form' = Some(FormValues(fetched["material"], fetched["labor"]))
    /\ UNCHANGED <<response, fetched, warnings>>
    /\ UNCHANGED simvars

NextFetch ==
    \/ \E f \in Fetchers : Fetch(f)
    \/ Form

SpecFetch == FetchInit /\ [][NextFetch]_vars

(***************************************************************************)
(* Properties of monte_carlo_simulation                                    *)
(***************************************************************************)
HasResult(r) == results[r] # None
Table(r) == results[r][1].results_df

\* what the specification calls an invalid parameter set
InvalidParameter(a) ==
    \/ a.material_std < 0 \/ a.labor_std < 0 \/ a.other_std < 0
    \/ a.material_mean < 0 \/ a.labor_mean < 0 \/ a.other_mean < 0
    \/ a.num_simulations < 1

\* the sum of the five cost columns of row i
RowCosts(df, i) ==
    df.Material_Costs[i] + df.Labor_Costs[i] + df.Other_Expenses[i]
        + df.Equipment_Costs[i] + df.Overhead_Costs[i]

\* C1: in every returned table, each row's Total Costs is the sum of the row's
\* five cost columns times (1 + inflation/100)(1 + delay/100)(1 + interest/100)
\* (in millionths: (100 + inflation)(100 + delay)(100 + interest)), and the
\* Equipment Costs and Overhead Costs of every row are the scalar arguments.
C1_TotalIsSumTimesFactors ==
    \A r \in Sessions :
        HasResult(r) =>
            LET df == Table(r)
                a == args[r]
            IN  \A i \in 1 .. Len(df.Total_Costs) :
                    /\ df.Equipment_Costs[i] = a.equipment_cost
                    /\ df.Overhead_Costs[i] = a.overhead_cost
                    /\ df.Total_Costs[i] =
                           RowCosts(df, i) * (100 + a.inflation_rate)
                               * (100 + a.delay_risk) * (100 + a.interest_rate)

C1_Witness ==
    /\ HasResult(1)
    /\ ~InvalidParameter(args[1])
    /\ args[1].num_simulations = MaxSims
    /\ args[1].inflation_rate = 5
    /\ args[1].equipment_cost = 3
    /\ \E i \in 1 .. MaxSims : Table(1).Total_Costs[i] > 0

\* C2: every returned table has exactly num_simulations rows in each of its
\* six columns, and row i of each sampled column is the i-th value of that
\* component's draw, so that a row is one realization.
C2_RowsAligned ==
    \A r \in Sessions :
        HasResult(r) =>
            LET df == Table(r)
                n == args[r].num_simulations
            IN  /\ \A c \in Columns : Len(df[c]) = n
                /\ \A i \in 1 .. n :
                       /\ df.Material_Costs[i] = drawn[r]["material"][1].out[i]
                       /\ df.Labor_Costs[i] = drawn[r]["labor"][1].out[i]
                       /\ df.Other_Expenses[i] = drawn[r]["other"][1].out[i]

C2_Witness ==
    /\ HasResult(1)
    /\ ~InvalidParameter(args[1])
    /\ args[1].num_simulations = MaxSims
    /\ Len(Table(1).Overhead_Costs) = MaxSims

\* C3: a call with a negative spread, a negative mean or num_simulations < 1
\* is rejected: it raises and no table is produced.
C3_InvalidRejected ==
    \A r \in Sessions :
        (pc[r] \in {"line80", "line87", "returned", "shown"} \/ HasResult(r))
            => ~InvalidParameter(args[r])

StdOf(a, c) ==
    CASE c = "material" -> a.material_std
      [] c = "labor" -> a.labor_std
      [] c = "other" -> a.other_std

\* session r has executed the sampling line of component c
Executed(r, c) ==
    CASE c = "material" -> pc[r] \notin {"idle", "line76"}
      [] c = "labor" -> drawn[r]["material"] # None /\ pc[r] # "line77"
      [] c = "other" -> drawn[r]["labor"] # None /\ pc[r] # "line78"

\* C4: in a call with valid parameters, sampling a component whose spread is 0
\* completes without an error and yields num_simulations values all equal to
\* the component's mean.
C4_ZeroSpreadConstant ==
    \A r \in Sessions : \A c \in Components :
        (Executed(r, c) /\ StdOf(args[r], c) = 0 /\ ~InvalidParameter(args[r]))
            => /\ raised[r] = ""
               /\ drawn[r][c] # None
               /\ drawn[r][c][1].out
                      = Broadcast(Mode(args[r], c), args[r].num_simulations)

\* the mean of Total Costs the same samples give under the inflation rate i
MeanTotalUnder(r, i) ==
    Mean(Aggregate(Table(r).Material_Costs, Table(r).Labor_Costs,
                   Table(r).Other_Expenses,
                   [args[r] EXCEPT !.inflation_rate = i]))

\* the sign that decides the direction: the sum of the rows' unadjusted
\* costs times the delay and interest factors
BaseSign(r) ==
    SumSeq(AddCosts(Table(r).Material_Costs, Table(r).Labor_Costs,
                    Table(r).Other_Expenses,
                    args[r].equipment_cost, args[r].overhead_cost))
        * delay_factor(args[r].delay_risk) * interest_factor(args[r].interest_rate)

\* C5 as stated: for every accepted parameter set, a strictly larger
\* inflation_rate on the same samples gives a strictly larger mean of Total
\* Costs.  It is stated here on the accepted parameter sets that the
\* specification calls valid (no negative mean or spread, at least one row).
C5_InflationAlwaysIncreasesMean ==
    \A r \in Sessions :
        (HasResult(r) /\ ~InvalidParameter(args[r])) =>
            \A i \in InflationSet :
                i > args[r].inflation_rate =>
                    MeanLess(Mean(Table(r).Total_Costs), MeanTotalUnder(r, i))

\* C5 amended: a strictly larger inflation_rate on the same samples gives a
\* strictly larger mean of Total Costs exactly when the table has a row and
\* the rows' unadjusted costs times the delay and interest factors sum to more
\* than zero; the mean is unchanged when that sum is zero and strictly
\* smaller when it is negative.
C5_InflationIncreasesPositiveMean ==
    \A r \in Sessions :
        HasResult(r) =>
            \A i \in InflationSet :
                i > args[r].inflation_rate =>
                    LET old == Mean(Table(r).Total_Costs)
                        new == MeanTotalUnder(r, i)
                    IN  /\ (args[r].num_simulations >= 1 /\ BaseSign(r) > 0)
                            <=> MeanLess(old, new)
                        /\ (args[r].num_simulations >= 1 /\ BaseSign(r) = 0)
                            => (old.num = new.num /\ old.den = new.den)
                        /\ (args[r].num_simulations >= 1 /\ BaseSign(r) < 0)
                            => MeanLess(new, old)

C5_Witness ==
    /\ HasResult(1)
    /\ ~InvalidParameter(args[1])
    /\ args[1].inflation_rate = 0
    /\ args[1].num_simulations = MaxSims
    /\ BaseSign(1) > 0
    /\ MeanLess(Mean(Table(1).Total_Costs), MeanTotalUnder(1, 5))

\* the result of a call with arguments a that runs alone from generator state s
RunAlone(a, s) ==
    LET m == Sample(a, "material", s)
        l == Sample(a, "labor", m.rng)
        o == Sample(a, "other", l.rng)
    IN  Returned(m.out, l.out, o.out, a, Aggregate(m.out, l.out, o.out, a))

\* C6: runs share no mutable state: the result of a run is the one it gives
\* when it is the only run of the process, whatever other runs did before it
\* or between its steps.
C6_RunsIndependent ==
    \A r \in Sessions :
        HasResult(r) => results[r][1] = RunAlone(args[r], seed)

\* C7: what the caller passes to the simulation (seed included) determines
\* the table: two runs given the same arguments return identical tables.
C7_SameArgumentsSameTable ==
    \A r1, r2 \in Sessions :
        (HasResult(r1) /\ HasResult(r2) /\ args[r1] = args[r2])
            => Table(r1) = Table(r2)

\* C9: a run is all-or-nothing: when the call raised, the caller holds no
\* table and no total-cost array and nothing is displayed; whatever the caller
\* holds or displays is a table with all six columns of num_simulations rows
\* and a total-cost array of that length.
C9_AllOrNothing ==
    \A r \in Sessions :
        /\ raised[r] # "" => (results[r] = None /\ shown[r] = None)
        /\ shown[r] # None => HasResult(r)
        /\ HasResult(r) =>
               /\ raised[r] = ""
               /\ DOMAIN Table(r) = Columns
               /\ \A c \in Columns : Len(Table(r)[c]) = args[r].num_simulations
               /\ Len(results[r][1].total_costs) = args[r].num_simulations

\* the third sampling failed after two columns had been drawn
C9_Witness ==
    /\ raised[1] # ""
    /\ material_costs[1] # None
    /\ labor_costs[1] # None
    /\ Len(material_costs[1][1]) = MaxSims
    /\ results[1] = None

RateChoices(a) ==
    {[a EXCEPT !.inflation_rate = i, !.delay_risk = d, !.interest_rate = k] :
        i \in InflationSet \cup {20}, d \in DelaySet \cup {0}, k \in InterestSet \cup {0}}

\* C10: in a returned table the three sampled columns are the raw draws: each
\* value lies in [mean - spread, mean + spread] and the column is what the
\* draw gives in the same generator state under any inflation, delay and
\* interest rates; and the returned total_costs array is the table's Total
\* Costs column.
C10_RiskAdjustsOnlyTotal ==
    \A r \in Sessions :
        HasResult(r) =>
            LET df == Table(r)
                a == args[r]
                col == [c \in Components |->
                           CASE c = "material" -> df.Material_Costs
                             [] c = "labor" -> df.Labor_Costs
                             [] c = "other" -> df.Other_Expenses]
            IN  /\ \A c \in Components :
                       /\ col[c] = drawn[r][c][1].out
                       /\ \A i \in 1 .. Len(col[c]) :
                              Left(a, c) <= col[c][i] /\ col[c][i] <= Right(a, c)
                       /\ \A b \in RateChoices(a) :
                              Sample(b, c, drawn[r][c][1].at).out = col[c]
                /\ results[r][1].total_costs = df.Total_Costs

C10_Witness ==
    /\ HasResult(1)
    /\ ~InvalidParameter(args[1])
    /\ args[1].num_simulations = MaxSims
    /\ args[1].inflation_rate = 5
    /\ Table(1).Total_Costs[1] # Table(1).Material_Costs[1]
    /\ Table(1).Material_Costs[1] # Table(1).Material_Costs[MaxSims]

(***************************************************************************)
(* Properties of the fetch functions                                       *)
(***************************************************************************)
Answered(f) == response[f].kind # "none"

\* the failures of an endpoint: the request fails, the body is no JSON, the
\* JSON value is no object
Failed(f) == response[f].kind \in {"request_error", "not_json", "not_object"}

DefaultOf(f) ==
    IF f = "material" THEN [k \in MaterialKeys |-> Default(k)]
    ELSE Default(CHOOSE k \in Keys(f) : TRUE)

ValueAt(f, k) == IF f = "material" THEN fetched[f][k] ELSE fetched[f]

\* an endpoint served null under a key the form computes with
NullServed ==
    \/ response["material"].data["cement"] = Null
    \/ response["labor"].data["average_labor_cost"] = Null

====
